---- MODULE Spec2Model ----
(***************************************************************************)
(* Model of prewikka/utils/cache.py: the _Cache entry (results, store      *)
(* times, hit/miss counters, optional duration), the instance-bound and    *)
(* request-bound memoizers and memoized properties that attach one _Cache  *)
(* to an object under a slot name, and the four decorator front-ends.      *)
(*                                                                         *)
(* A wrapped computation is arbitrary user code: each invocation either    *)
(* returns a value or raises.  A returned value is tagged with the         *)
(* computation and the arguments it was invoked with, and with a version   *)
(* (the computation may read state that changes between invocations).      *)
(***************************************************************************)
EXTENDS Integers, Sequences, FiniteSets, TLC

\* ---------------------------------------------------------------- bounds
MaxTime == 3        \* the clock runs from 0 to MaxTime
MaxLookups == 3     \* cap on the lookups counted by all caches together
NumVersions == 2    \* distinct values one computation can return for one argument list
MaxRequests == 2    \* requests served
TTL == 2            \* the duration given to the decorators that take one

\* ---------------------------------------------------------------- values
None == -1          \* Python's None, where a duration is expected

Objs == {"o1", "o2"}

\* env.request.cache, the storage object of the request being served
REQ == "env.request.cache"

Holders == Objs \cup {REQ}

Versions == 1 .. NumVersions

\* the time an invocation of a computation that returns can take: none, or one tick
Elapsed == {0, 1}

\* what one invocation of a wrapped computation does
Outcomes ==
    {[exc |-> "none", ver |-> n] : n \in Versions}
        \cup {[exc |-> "TypeError", ver |-> 0], [exc |-> "Error", ver |-> 0]}

\* the value func(*args, **kwargs) returns at version ver
Result(func, args, kw, ver) == [func |-> func, args |-> args, kw |-> kw, ver |-> ver]

\* a value assigned to a memoized property by its user
Assigned(ver) == Result("assigned", <<>>, <<>>, ver)

AssignedValues == {Assigned(n) : n \in Versions}

NoValue == Result("none", <<>>, <<>>, 0)

\* positional values a caller passes; "lst" is a list, which Python cannot hash
Hashable(v) == v # "lst"

\* hash((args, tuple(kwargs.items()))) succeeds
KeyHashable(key) ==
    /\ \A i \in DOMAIN key[1] : Hashable(key[1][i])
    /\ \A i \in DOMAIN key[2] : Hashable(key[2][i][2])

\* the argument lists callers use: <<positional arguments, keyword items>>
CallInputs == {<< <<"a1">>, <<>> >>, << <<"lst">>, <<>> >>}

Empty == <<>>       \* the empty dict

\* ---------------------------------------------------------------- _Cache
\* _Cache.__init__
_Cache(func, duration) ==
    [cache |-> Empty, cached_func |-> func, hits |-> 0, misses |-> 0,
     duration |-> duration, times |-> Empty]

\* _set that stores the value and no timestamp
_set_untimed(c, key, value, t) == [c EXCEPT !.cache = (key :> value) @@ @]

\* _Cache._set at clock reading t; the value returned is the one passed in
_set(c, key, value, t) ==
    [c EXCEPT !.cache = (key :> value) @@ @, !.times = (key :> t) @@ @]

\* the test for a missing duration alone
Falsy_none(duration) == duration = None

\* Python's "not self._duration"
Falsy(duration) == duration = None \/ duration = 0

\* Fresh with the comparison turned round
Fresh_reversed(c, key, t) == Falsy(c.duration) \/ c.times[key] + c.duration < t

\* Fresh with the duration left out: a stored value never expires
Fresh_forever(c, key, t) == TRUE

\* Fresh with the boundary counted as fresh
Fresh_inclusive(c, key, t) == Falsy(c.duration) \/ c.times[key] + c.duration >= t

\* the second conjunct of the test in _Cache._get, at clock reading t
Fresh(c, key, t) == Falsy(c.duration) \/ c.times[key] + c.duration > t

\* a key in which the keyword items are put in one order, whatever order the
\* caller wrote them in
CallKey_anyorder(args, kw) ==
    <<args, CHOOSE s \in [DOMAIN kw -> {kw[i] : i \in DOMAIN kw}] :
                {s[i] : i \in DOMAIN s} = {kw[i] : i \in DOMAIN kw}>>

\* a key made of the positional arguments alone
CallKey_positional(args, kw) == <<args, <<>> >>

\* the key _Cache._get builds
CallKey(args, kw) == <<args, kw>>

\* _get_except counting the call as a miss
_get_except_counted(c, args, kw, r, invoked) ==
    [c |-> [c EXCEPT !.misses = @ + 1], outcome |-> "uncached",
     ret |-> IF r.exc = "none" THEN Result(c.cached_func, args, kw, r.ver) ELSE NoValue,
     raised |-> r.exc, invoked |-> invoked + 1, logged |-> 1]

\* the except TypeError branch of _Cache._get: one log line, then the computation
\* is invoked outside any handler, with outcome r; invoked counts the invocations
\* the try block made
_get_except(c, args, kw, r, invoked) ==
    [c |-> c, outcome |-> "uncached",
     ret |-> IF r.exc = "none" THEN Result(c.cached_func, args, kw, r.ver) ELSE NoValue,
     raised |-> r.exc, invoked |-> invoked + 1, logged |-> 1]

\* the hit branch with the timestamp renewed at every hit
_get_hit_refresh(c, key, t) ==
    [c |-> [c EXCEPT !.hits = @ + 1, !.times[key] = t], outcome |-> "hit", ret |-> c.cache[key],
     raised |-> "none", invoked |-> 0, logged |-> 0]

\* the hit branch of _Cache._get: count the hit, return the stored value
_get_hit(c, key, t) ==
    [c |-> [c EXCEPT !.hits = @ + 1], outcome |-> "hit", ret |-> c.cache[key],
     raised |-> "none", invoked |-> 0, logged |-> 0]

\* the miss branch with the miss counted once the computation has returned
_get_miss_late(c, args, kw, t, r1, d, r2) ==
    LET m == [c EXCEPT !.misses = @ + 1]
        v == Result(c.cached_func, args, kw, r1.ver)
    IN  CASE r1.exc = "none" ->
               [c |-> _set(m, CallKey(args, kw), v, t + d), outcome |-> "miss", ret |-> v,
                raised |-> "none", invoked |-> 1, logged |-> 0]
          [] r1.exc = "TypeError" ->
               _get_except(c, args, kw, r2, 1)
          [] OTHER ->
               [c |-> c, outcome |-> "miss", ret |-> NoValue,
                raised |-> r1.exc, invoked |-> 1, logged |-> 0]

\* the miss branch of _Cache._get: count the miss, invoke the computation (outcome
\* r1), store what it returns at the clock reading t + d; its TypeError lands in
\* the handler, any other exception leaves _get
_get_miss(c, args, kw, t, r1, d, r2) ==
    LET m == [c EXCEPT !.misses = @ + 1]
        v == Result(c.cached_func, args, kw, r1.ver)
    IN  CASE r1.exc = "none" ->
               [c |-> _set(m, CallKey(args, kw), v, t + d), outcome |-> "miss", ret |-> v,
                raised |-> "none", invoked |-> 1, logged |-> 0]
          [] r1.exc = "TypeError" ->
               _get_except(m, args, kw, r2, 1)
          [] OTHER ->
               [c |-> m, outcome |-> "miss", ret |-> NoValue,
                raised |-> r1.exc, invoked |-> 1, logged |-> 0]

\* _Cache._get entered at clock reading t.  r1 is the outcome of the invocation
\* inside the try block and r2 that of the invocation made by the handler; each
\* is used only on the path that invokes.  d is the time the invocation in the
\* try block takes when it returns: _set reads the clock after it.
_get(c, args, kw, t, r1, d, r2) ==
    LET key == CallKey(args, kw) IN
    IF ~KeyHashable(key)
    THEN _get_except(c, args, kw, r2, 0)
    ELSE IF key \in DOMAIN c.cache /\ Fresh(c, key, t)
    THEN _get_hit(c, key, t)
    ELSE _get_miss(c, args, kw, t, r1, d, r2)

\* clear that starts the statistics afresh as well
clear_reset(c) == [c EXCEPT !.cache = Empty, !.hits = 0, !.misses = 0]

\* _Cache.clear
clear(c) == [c EXCEPT !.cache = Empty]

\* _Cache.infos
infos(c) == [hits |-> c.hits, misses |-> c.misses, size |-> Cardinality(DOMAIN c.cache)]

\* ---------------------------------------------------------------- memoizers
\* _memoize.__init__ and _memoize_property.__init__ (set_func: a setter is registered)
Memoizer(cls, func, name, duration, set_func) ==
    [cls |-> cls, func |-> func, cache_objname |-> name, duration |-> duration,
     set_func |-> set_func]

\* the decorator front-ends, applied to func
memoize(name, duration, func) == Memoizer("_memoize", func, name, duration, FALSE)

memoize_property(name, duration, func) ==
    Memoizer("_memoize_property", func, name, duration, FALSE)

request_memoize(name, func) == Memoizer("_request_memoize", func, name, None, FALSE)

request_memoize_property(name, func) ==
    Memoizer("_request_memoize_property", func, name, None, FALSE)

\* _memoize_property.setter
setter(m) == [m EXCEPT !.set_func = TRUE]

IsProperty(m) == m.cls \in {"_memoize_property", "_request_memoize_property"}

IsRequest(m) == m.cls \in {"_request_memoize", "_request_memoize_property"}

\* CacheObj keeping one cache for the whole class, on its first instance
CacheObj_shared(m, obj) == IF IsRequest(m) THEN REQ ELSE "o1"

\* CacheObj without the override of _request_memoize
CacheObj_instance(m, obj) == obj

\* the object _setup_cache looks the _Cache up on: obj itself, or
\* env.request.cache for the classes deriving from _request_memoize
CacheObj(m, obj) == IF IsRequest(m) THEN REQ ELSE obj

\* one attribute name for every memoizer, whatever name it was given
SlotName_fixed(m) == "_cache"

\* the attribute name getattr and setattr use in _setup_cache
SlotName(m) == m.cache_objname

\* the attributes of all objects after m._setup_cache(obj); at[h] maps the slot
\* names set on h to their _Cache
_setup_cache(at, m, obj) ==
    LET h == CacheObj(m, obj) IN
    IF SlotName(m) \in DOMAIN at[h]
    THEN at
    ELSE [at EXCEPT ![h] = (SlotName(m) :> _Cache(m.func, m.duration)) @@ @]

\* CallArgs leaving the instance out
CallArgs_noobj(obj, args) == args

\* the positional arguments _memoize.__call__ passes to _Cache._get
CallArgs(obj, args) == <<obj>> \o args

\* the key _memoize_property.__set__ stores the assigned value under
SetKey(obj) == <<obj>>

\* ---------------------------------------------------------------- state
VARIABLES
    decls,       \* the memoized computations of the class: name -> memoizer
    attrs,       \* object -> (slot name -> _Cache), the caches set on each object
    underlying,  \* object -> the value its property setter last stored
    now,         \* time.time()
    request,     \* number of the request being served
    first,       \* history: per call identity, the latest miss that stored a value:
                 \* when the call was made and when the value was stored (t0 and
                 \* stored, kept only under a duration), the value, the request, and
                 \* the request of the store it replaced (prior)
    last,        \* history: what the latest operation did
    threads      \* thread -> how far its call of _Cache._get has got

vars == <<decls, attrs, underlying, now, request, first, last, threads>>

Funcs == {"f"}

Durations == {None, TTL}

\* the ways the class under consideration declares its memoized computation
DeclChoices ==
    {memoize("f_cache", d, "f") : d \in Durations}
        \cup {memoize_property("f_cache", d, "f") : d \in Durations}
        \cup {setter(memoize_property("f_cache", d, "f")) : d \in Durations}
        \cup {request_memoize("f_cache", "f"),
              request_memoize_property("f_cache", "f"),
              setter(request_memoize_property("f_cache", "f"))}

\* the record of one operation: what was asked (op, func, obj, args, kw), how the
\* cache answered (outcome), what the caller got (ret, or the exception raised),
\* how often the wrapped computation ran (invoked), the first exception it raised
\* (failed) and how many lines went to env.log (logged)
Op(op, func, obj, args, kw, outcome, ret, raised, invoked, failed, logged) ==
    [op |-> op, func |-> func, obj |-> obj, args |-> args, kw |-> kw,
     outcome |-> outcome, ret |-> ret, raised |-> raised, invoked |-> invoked,
     failed |-> failed, logged |-> logged]

NoOp(op) == Op(op, "", "", <<>>, <<>>, "none", NoValue, "none", 0, "none", 0)

\* the call identity a history entry is filed under
CallId(func, obj, args, kw) == <<func, obj, args, kw>>

HasEntry(h, name) == name \in DOMAIN attrs[h]

\* infos() of the _Cache in slot name of h; zeros while it does not exist yet
Stats(at, h, name) ==
    IF name \in DOMAIN at[h] THEN infos(at[h][name])
    ELSE [hits |-> 0, misses |-> 0, size |-> 0]

\* the threads that may call into one cache at the same time
Threads == {"t1", "t2"}

\* a thread that is not inside _Cache._get
Idle == [pc |-> "idle", func |-> "", obj |-> "", args |-> <<>>, kw |-> <<>>,
         outcome |-> "none", ret |-> NoValue, ran |-> 0]

\* the state before the first call, for the declarations in choices
Start(choices) ==
    /\ decls \in choices
    /\ attrs = [h \in Holders |-> Empty]
    /\ underlying = [o \in Objs |-> NoValue]
    /\ now = 0
    /\ request = 1
    /\ first = Empty
    /\ last = NoOp("init")
    /\ threads = [t \in Threads |-> Idle]

Init == Start({("f" :> d) : d \in DeclChoices})

\* ---------------------------------------------------------------- operations
\* hits + misses summed over every _Cache there is
Lookups(at) ==
    LET RECURSIVE Sum(_)
        Sum(S) == IF S = {} THEN 0
                  ELSE LET x == CHOOSE y \in S : TRUE
                       IN  at[x[1]][x[2]].hits + at[x[1]][x[2]].misses + Sum(S \ {x})
    IN  Sum({x \in Holders \X {SlotName(decls[f]) : f \in DOMAIN decls} : x[2] \in DOMAIN at[x[1]]})

\* which invocations _Cache._get makes on this path: the one in the try block,
\* the one in the handler
InvokesTry(c, args, kw, t) ==
    LET key == CallKey(args, kw) IN
    KeyHashable(key) /\ ~(key \in DOMAIN c.cache /\ Fresh(c, key, t))

InvokesHandler(c, args, kw, t, r1) ==
    ~KeyHashable(CallKey(args, kw)) \/ (InvokesTry(c, args, kw, t) /\ r1.exc = "TypeError")

Skipped == [exc |-> "skipped", ver |-> 0]

\* _memoize.__call__(obj, *args, **kwargs): self._setup_cache(obj)._get(obj, *args, **kwargs)
Lookup(op, f, obj, args, kw, D) ==
    LET m == decls[f]
        h == CacheObj(m, obj)
        at == _setup_cache(attrs, m, obj)
        c == at[h][SlotName(m)]
        a == CallArgs(obj, args)
    IN  /\ Lookups(attrs) < MaxLookups
        /\ \E r1 \in IF InvokesTry(c, a, kw, now) THEN Outcomes ELSE {Skipped} :
           \E d \in IF r1.exc = "none" THEN D ELSE {0},
              r2 \in IF InvokesHandler(c, a, kw, now, r1) THEN Outcomes ELSE {Skipped} :
              LET res == _get(c, a, kw, now, r1, d, r2) IN
              /\ now + d <= MaxTime
              /\ attrs' = [at EXCEPT ![h][SlotName(m)] = res.c]
              /\ now' = now + d
              /\ first' = IF res.outcome = "miss" /\ res.raised = "none"
                          THEN (CallId(f, obj, args, kw) :>
                                    [t0 |-> IF Falsy(m.duration) THEN 0 ELSE now,
                                     stored |-> IF Falsy(m.duration) THEN 0 ELSE now + d,
                                     value |-> res.ret, request |-> request,
                                     prior |-> IF CallId(f, obj, args, kw) \in DOMAIN first
                                               THEN first[CallId(f, obj, args, kw)].request
                                               ELSE 0])
                                   @@ first
                          ELSE first
              /\ last' = Op(op, f, obj, args, kw, res.outcome, res.ret, res.raised,
                            res.invoked,
                            IF r1.exc \in {"none", "skipped"} THEN res.raised ELSE r1.exc,
                            res.logged)
        /\ UNCHANGED <<decls, underlying, request, threads>>

\* a call of a memoized method: _memoize.__get__ binds obj, the caller supplies the rest
Call(f, obj, args, kw, D) ==
    /\ ~IsProperty(decls[f])
    /\ Lookup("call", f, obj, args, kw, D)

\* a read of a memoized property: _memoize_property.__get__
PropertyGet(f, obj, D) ==
    /\ IsProperty(decls[f])
    /\ Lookup("read", f, obj, <<>>, <<>>, D)

\* Settable without the test
Settable_always(m) == TRUE

\* the test _memoize_property.__set__ starts with: a setter is registered
Settable(m) == m.set_func

\* an assignment to a memoized property: _memoize_property.__set__
PropertySet(f, obj, value) ==
    LET m == decls[f] IN
    /\ IsProperty(m)
    /\ IF ~Settable(m)
       THEN /\ last' = Op("write", f, obj, <<>>, <<>>, "ignored", value, "none", 0, "none", 0)
            /\ UNCHANGED <<attrs, underlying>>
       ELSE LET h == CacheObj(m, obj)
                at == _setup_cache(attrs, m, obj)
            IN  /\ underlying' = [underlying EXCEPT ![obj] = value]
                /\ attrs' = [at EXCEPT ![h][SlotName(m)] = _set(@, SetKey(obj), value, now)]
                /\ last' = Op("write", f, obj, <<>>, <<>>, "written", value, "none", 0, "none", 0)
    /\ UNCHANGED <<decls, now, request, first, threads>>

\* <object>.<slot name>.clear(), the clearing the decorators' docstrings advertise
Clear(h, name) ==
    /\ HasEntry(h, name)
    /\ attrs' = [attrs EXCEPT ![h][name] = clear(@)]
    /\ first' = [id \in {i \in DOMAIN first :
                            ~(SlotName(decls[i[1]]) = name /\ CacheObj(decls[i[1]], i[2]) = h)}
                    |-> first[id]]
    /\ last' = Op("clear", "", h, <<name>>, <<>>, "cleared", NoValue, "none", 0, "none", 0)
    /\ UNCHANGED <<decls, underlying, now, request, threads>>

\* the clock advances
Tick ==
    /\ now < MaxTime
    /\ now' = now + 1
    /\ last' = NoOp("tick")
    /\ UNCHANGED <<decls, attrs, underlying, request, first, threads>>

\* the request ends and the next one starts with a storage object of its own
NewRequest ==
    /\ request < MaxRequests
    /\ request' = request + 1
    /\ attrs' = [attrs EXCEPT ![REQ] = Empty]
    /\ last' = NoOp("newrequest")
    /\ UNCHANGED <<decls, underlying, now, first, threads>>

SlotNames == {SlotName(decls[f]) : f \in DOMAIN decls}

\* one instance, followed through time and from request to request
Solo == {"o1"}

Next ==
    \/ \E f \in Funcs, obj \in Solo, inp \in CallInputs : Call(f, obj, inp[1], inp[2], Elapsed)
    \/ \E f \in Funcs, obj \in Solo : PropertyGet(f, obj, Elapsed)
    \/ \E f \in Funcs, obj \in Solo, value \in AssignedValues : PropertySet(f, obj, value)
    \/ \E h \in Solo \cup {REQ}, name \in SlotNames : Clear(h, name)
    \/ Tick
    \/ NewRequest

Spec == Init /\ [][Next]_vars

\* two instances of the class used side by side within one request; computations
\* return at once and the clock stands still
NextObjects ==
    \/ \E f \in Funcs, obj \in Objs, inp \in CallInputs : Call(f, obj, inp[1], inp[2], {0})
    \/ \E f \in Funcs, obj \in Objs : PropertyGet(f, obj, {0})
    \/ \E f \in Funcs, obj \in Objs, value \in AssignedValues : PropertySet(f, obj, value)
    \/ \E h \in Holders, name \in SlotNames : Clear(h, name)

SpecObjects == Init /\ [][NextObjects]_vars

\* ---------------------------------------------------------------- properties
IsLookup(l) == l.op \in {"call", "read"}

\* the call identity of the operation recorded in l
IdOf(l) == CallId(l.func, l.obj, l.args, l.kw)

\* the key under which the code files the lookup recorded in l
KeyOf(l) == << <<l.obj>> \o l.args, l.kw >>

\* the argument list of the lookup recorded in l can be hashed
Keyable(l) == \A i \in DOMAIN l.args : Hashable(l.args[i])

\* infos() of the cache the memoizer of func uses for obj
StatsOf(at, func, obj) == Stats(at, CacheObj(decls[func], obj), decls[func].cache_objname)

\* a lookup made now falls in the TTL window of the stored first call e, in the
\* same scope (for a request-bound memoizer: the same request)
InWindow(m, e) ==
    /\ Falsy(m.duration) \/ now < e.t0 + m.duration
    /\ IsRequest(m) => e.request = request

\* C1: after a first call that missed and stored its value, every later call with
\* the same arguments on the same scope, made within the TTL window of that first
\* call and with no clear() in between, runs the wrapped computation zero times,
\* returns the value the first call stored, and adds one to hits and nothing to
\* misses; the first call itself ran the computation once and counted one miss.
C1_ExactlyOnce ==
    [][IsLookup(last') =>
          LET l == last'
              m == decls[l.func]
              before == StatsOf(attrs, l.func, l.obj)
              after == StatsOf(attrs', l.func, l.obj)
          IN  /\ (IdOf(l) \in DOMAIN first /\ InWindow(m, first[IdOf(l)])) =>
                    /\ l.outcome = "hit"
                    /\ l.invoked = 0
                    /\ l.raised = "none"
                    /\ l.ret = first[IdOf(l)].value
                    /\ after.hits = before.hits + 1
                    /\ after.misses = before.misses
                    /\ first' = first
              /\ (l.outcome = "miss" /\ l.raised = "none") =>
                    /\ l.invoked = 1
                    /\ after.misses = before.misses + 1
                    /\ after.hits = before.hits
                    /\ first'[IdOf(l)].value = l.ret]_vars

\* a cache under a duration answered one miss and then two hits for the same call
C1_Witness ==
    /\ IsLookup(last)
    /\ last.outcome = "hit"
    /\ decls[last.func].duration = TTL
    /\ IdOf(last) \in DOMAIN first
    /\ StatsOf(attrs, last.func, last.obj) = [hits |-> 2, misses |-> 1, size |-> 1]

\* C3: under a duration d, with a value stored for a key at time t0, a lookup of
\* that key made later than t0 + d runs the computation and counts a miss, and
\* when the computation returns, its value is stored with the clock reading of
\* the store; a lookup made earlier than t0 + d returns the stored value and
\* counts a hit.
C3_Expiry ==
    [][(IsLookup(last') /\ Keyable(last') /\ ~Falsy(decls[last'.func].duration)) =>
          LET l == last'
              m == decls[l.func]
              h == CacheObj(m, l.obj)
              key == KeyOf(l)
              before == StatsOf(attrs, l.func, l.obj)
              after == StatsOf(attrs', l.func, l.obj)
              stored == HasEntry(h, m.cache_objname) /\ key \in DOMAIN attrs[h][m.cache_objname].cache
              c == attrs[h][m.cache_objname]
              c2 == attrs'[h][m.cache_objname]
          IN  /\ (stored /\ now > c.times[key] + m.duration) =>
                    /\ l.outcome \in {"miss", "uncached"}
                    /\ l.invoked >= 1
                    /\ after.misses = before.misses + 1
                    /\ after.hits = before.hits
                    /\ (l.outcome = "miss" /\ l.raised = "none") =>
                          /\ c2.cache[key] = l.ret
                          /\ c2.times[key] = now'
                          /\ c2.times[key] >= now
              /\ (stored /\ now < c.times[key] + m.duration) =>
                    /\ l.outcome = "hit"
                    /\ l.invoked = 0
                    /\ l.ret = c.cache[key]
                    /\ c2.times[key] = c.times[key]
                    /\ after.hits = before.hits + 1
                    /\ after.misses = before.misses]_vars

\* a miss, a hit inside the window, then a miss after the window that stored a
\* value with a new timestamp
C3_Witness ==
    /\ IsLookup(last)
    /\ last.outcome = "miss"
    /\ last.raised = "none"
    /\ decls[last.func].duration = TTL
    /\ StatsOf(attrs, last.func, last.obj) = [hits |-> 1, misses |-> 2, size |-> 1]
    /\ attrs[last.obj][decls[last.func].cache_objname].times[KeyOf(last)] > TTL
    /\ first[IdOf(last)].prior = 1

\* C4: when the wrapped computation fails during a lookup, with whatever
\* exception, the computation ran once in that call, the caller gets that same
\* exception, and the stored results are what they were.
C4_FailurePropagates ==
    [][(IsLookup(last') /\ last'.failed # "none") =>
          LET l == last'
              m == decls[l.func]
              h == CacheObj(m, l.obj)
          IN  /\ l.invoked = 1
              /\ l.raised = l.failed
              /\ attrs'[h][m.cache_objname].cache
                    = (IF HasEntry(h, m.cache_objname)
                       THEN attrs[h][m.cache_objname].cache ELSE Empty)]_vars

\* C5: a call whose arguments cannot be hashed writes one line to the log, runs
\* the wrapped computation once, hands the caller the outcome of that run (its
\* value, or the exception the computation itself raised) and leaves hits, misses,
\* size and the stored results as they were.
C5_Unkeyable ==
    [][(IsLookup(last') /\ ~Keyable(last')) =>
          LET l == last'
              m == decls[l.func]
              h == CacheObj(m, l.obj)
          IN  /\ l.logged = 1
              /\ l.invoked = 1
              /\ l.raised = l.failed
              /\ l.raised = "none" =>
                    /\ l.ret.func = l.func
                    /\ l.ret.args = <<l.obj>> \o l.args
                    /\ l.ret.kw = l.kw
                    /\ l.ret.ver \in Versions
              /\ l.raised # "none" => l.ret = NoValue
              /\ StatsOf(attrs', l.func, l.obj) = StatsOf(attrs, l.func, l.obj)
              /\ HasEntry(h, m.cache_objname) => attrs'[h] = attrs[h]]_vars

\* an unhashable call answered from the computation, next to a cache that holds a
\* value and has counted a miss and a hit
C5_Witness ==
    /\ last.op = "call"
    /\ ~Keyable(last)
    /\ last.raised = "none"
    /\ last.ret.ver \in Versions
    /\ StatsOf(attrs, last.func, last.obj) = [hits |-> 1, misses |-> 1, size |-> 1]

\* C6: clear() leaves a cache of size 0 with hits and misses as they were, and a
\* lookup of a key that was stored before (it has a timestamp) and is no longer
\* in the results is a miss that runs the computation.
C6_Clear ==
    [][/\ last'.op = "clear" =>
             LET h == last'.obj
                 name == last'.args[1]
             IN  /\ infos(attrs'[h][name]).size = 0
                 /\ infos(attrs'[h][name]).hits = infos(attrs[h][name]).hits
                 /\ infos(attrs'[h][name]).misses = infos(attrs[h][name]).misses
       /\ (IsLookup(last') /\ Keyable(last')) =>
             LET l == last'
                 m == decls[l.func]
                 h == CacheObj(m, l.obj)
                 before == StatsOf(attrs, l.func, l.obj)
                 after == StatsOf(attrs', l.func, l.obj)
             IN  (/\ HasEntry(h, m.cache_objname)
                  /\ KeyOf(l) \in DOMAIN attrs[h][m.cache_objname].times
                  /\ KeyOf(l) \notin DOMAIN attrs[h][m.cache_objname].cache) =>
                     /\ l.outcome \in {"miss", "uncached"}
                     /\ l.invoked >= 1
                     /\ after.misses = before.misses + 1
                     /\ after.hits = before.hits]_vars

\* a cache without a duration that counted a miss and a hit, was cleared, and
\* then answered the same call with a second miss
C6_Witness ==
    /\ IsLookup(last)
    /\ last.outcome = "miss"
    /\ last.raised = "none"
    /\ Falsy(decls[last.func].duration)
    /\ ~IsRequest(decls[last.func])
    /\ first[IdOf(last)].prior = 0
    /\ StatsOf(attrs, last.func, last.obj) = [hits |-> 1, misses |-> 2, size |-> 1]

\* C2: a write to a memoized property with a registered setter changes neither
\* hits nor misses, and a read of the same property of the same object that
\* follows it immediately returns the written value, runs the wrapped
\* computation zero times and changes neither hits nor misses.
C2_WriteThenRead ==
    [][/\ (last'.op = "write" /\ decls[last'.func].set_func) =>
             /\ StatsOf(attrs', last'.func, last'.obj).hits
                   = StatsOf(attrs, last'.func, last'.obj).hits
             /\ StatsOf(attrs', last'.func, last'.obj).misses
                   = StatsOf(attrs, last'.func, last'.obj).misses
       /\ (/\ last.op = "write" /\ decls[last.func].set_func
           /\ last'.op = "read" /\ last'.func = last.func /\ last'.obj = last.obj) =>
             /\ last'.raised = "none"
             /\ last'.ret = last.ret
             /\ last'.invoked = 0
             /\ StatsOf(attrs', last'.func, last'.obj).hits
                   = StatsOf(attrs, last'.func, last'.obj).hits
             /\ StatsOf(attrs', last'.func, last'.obj).misses
                   = StatsOf(attrs, last'.func, last'.obj).misses]_vars

\* C7: with an instance-bound memoizer, a lookup, a property write or a clear made
\* through one instance lands in the cache set on that instance and leaves the
\* caches set on every other instance (results, timestamps, hits, misses, size)
\* and the other instances' underlying state as they were.
C7_Independent ==
    [][(/\ last'.op \in {"call", "read", "write", "clear"}
        /\ last'.obj \in Objs
        /\ \A f \in Funcs : ~IsRequest(decls[f])) =>
          /\ \A p \in Objs \ {last'.obj} :
                /\ attrs'[p] = attrs[p]
                /\ underlying'[p] = underlying[p]
          /\ attrs'[REQ] = attrs[REQ]
          /\ (IsLookup(last') \/ (last'.op = "write" /\ decls[last'.func].set_func)) =>
                decls[last'.func].cache_objname \in DOMAIN attrs'[last'.obj]
          /\ (IsLookup(last') /\ Keyable(last')) =>
                LET before == Stats(attrs, last'.obj, decls[last'.func].cache_objname)
                    after == Stats(attrs', last'.obj, decls[last'.func].cache_objname)
                IN  after.hits + after.misses = before.hits + before.misses + 1]_vars

\* two instances, each with a cache of its own: o1 counted a miss and a hit, o2
\* one miss
C7_Witness ==
    /\ \A f \in Funcs : ~IsRequest(decls[f])
    /\ last.obj = "o1"
    /\ last.outcome = "hit"
    /\ StatsOf(attrs, "f", "o1") = [hits |-> 1, misses |-> 1, size |-> 1]
    /\ StatsOf(attrs, "f", "o2") = [hits |-> 0, misses |-> 1, size |-> 1]

\* C8: with a request-bound memoizer, the lookups of every instance are counted
\* by the one cache set on the request's storage object and no cache is set on an
\* instance; a hit returns a value that was computed for the calling instance
\* (the value that instance's own earlier call stored), and a call of an instance
\* that has stored nothing for these arguments is not a hit and counts a miss.
C8_SharedEntry ==
    [][(IsLookup(last') /\ Keyable(last') /\ IsRequest(decls[last'.func])) =>
          LET l == last'
              name == decls[l.func].cache_objname
              before == Stats(attrs, REQ, name)
              after == Stats(attrs', REQ, name)
          IN  /\ \A o \in Objs : attrs'[o] = Empty
              /\ after.hits + after.misses = before.hits + before.misses + 1
              /\ l.outcome = "hit" =>
                    /\ l.ret.args = <<l.obj>> \o l.args
                    /\ IdOf(l) \in DOMAIN first
                    /\ l.ret = first[IdOf(l)].value
              /\ IdOf(l) \notin DOMAIN first =>
                    /\ l.outcome # "hit"
                    /\ l.invoked >= 1
                    /\ after.misses = before.misses + 1]_vars

\* one request-bound cache holding a value for each of the two instances, which
\* counted their two first calls as misses and then a hit
C8_Witness ==
    /\ IsRequest(decls["f"])
    /\ last.outcome = "hit"
    /\ Stats(attrs, REQ, "f_cache") = [hits |-> 1, misses |-> 2, size |-> 2]
    /\ \A o \in Objs : \E id \in DOMAIN first : id[2] = o

\* C9: with a request-bound memoizer, a hit returns a value that a lookup of the
\* current request stored, never one stored during another request, and the first
\* lookup of a request finds no cache on the request's storage object: it runs
\* the computation and leaves a new cache that has counted that one miss.
C9_RequestLifetime ==
    [][(IsLookup(last') /\ Keyable(last') /\ IsRequest(decls[last'.func])) =>
          LET l == last'
              name == decls[l.func].cache_objname
          IN  /\ l.outcome = "hit" =>
                    /\ IdOf(l) \in DOMAIN first
                    /\ first[IdOf(l)].request = request
                    /\ l.ret = first[IdOf(l)].value
              /\ ~HasEntry(REQ, name) =>
                    /\ l.outcome \in {"miss", "uncached"}
                    /\ l.invoked >= 1
                    /\ Stats(attrs', REQ, name).hits = 0
                    /\ Stats(attrs', REQ, name).misses = 1]_vars

\* a call whose value was stored during request 1 missed in request 2 and stored
\* a value again, in a cache that has counted nothing else
C9_Witness ==
    /\ IsLookup(last)
    /\ IsRequest(decls[last.func])
    /\ request = 2
    /\ last.outcome = "miss"
    /\ last.raised = "none"
    /\ first[IdOf(last)].request = 2
    /\ first[IdOf(last)].prior = 1
    /\ Stats(attrs, REQ, decls[last.func].cache_objname) = [hits |-> 0, misses |-> 1, size |-> 1]

\* C10: a write to a memoized property without a registered setter raises
\* nothing and changes nothing: no cache is created, and the underlying state,
\* the stored results, the timestamps, hits and misses stay as they were.
C10_NoSetter ==
    [][(last'.op = "write" /\ ~decls[last'.func].set_func) =>
          /\ last'.raised = "none"
          /\ last'.outcome = "ignored"
          /\ attrs' = attrs
          /\ underlying' = underlying
          /\ now' = now]_vars

\* a write without a setter next to a cache that holds a value, and one made
\* before any cache exists
C10_Witness ==
    /\ last.op = "write"
    /\ last.outcome = "ignored"
    /\ ~decls[last.func].set_func
    /\ StatsOf(attrs, last.func, last.obj) = [hits |-> 1, misses |-> 1, size |-> 1]

\* ------------------------------------------------ calls that differ in arguments
\* the items of a call's kwargs dict: the (name, value) pairs in the order the
\* caller wrote them, x=a1, y=a2 and y=a2, x=a1
KwXY == << <<"x", "a1">>, <<"y", "a2">> >>

KwYX == << <<"y", "a2">>, <<"x", "a1">> >>

\* argument lists that differ in a positional value, in the set of keyword items,
\* or only in the order of the keyword items
ArgInputs ==
    {<< <<"a1">>, <<>> >>, << <<"a2">>, <<>> >>, << <<"a1">>, KwXY >>, << <<"a1">>, KwYX >>}

\* a memoized method, bound to the instance or to the request
MethodChoices == {memoize("f_cache", None, "f"), request_memoize("f_cache", "f")}

InitArgs == Start({("f" :> d) : d \in MethodChoices})

\* one instance within one request; computations return at once
NextArgs ==
    \/ \E inp \in ArgInputs : Call("f", "o1", inp[1], inp[2], {0})
    \/ \E h \in {"o1", REQ}, name \in SlotNames : Clear(h, name)

SpecArgs == InitArgs /\ [][NextArgs]_vars

\* the set of keyword name/value pairs of a sequence of keyword items
KwSet(kw) == {kw[i] : i \in DOMAIN kw}

\* two keys stand for the same argument list: the same positional values in the
\* same order and the same set of keyword pairs
SameArguments(k1, k2) == k1[1] = k2[1] /\ KwSet(k1[2]) = KwSet(k2[2])

\* C11: a call whose argument list differs, in a positional value or in the set
\* of keyword name/value pairs, from every argument list that has a stored result
\* is a miss, and when its computation returns the size grows by one, the value
\* is filed under the call's own key and every other entry stays as it was; no
\* call returns a value computed for another argument list.
C11_DistinctEntries ==
    [][(IsLookup(last') /\ Keyable(last')) =>
          LET l == last'
              m == decls[l.func]
              h == CacheObj(m, l.obj)
              key == KeyOf(l)
              old == IF HasEntry(h, m.cache_objname) THEN attrs[h][m.cache_objname].cache ELSE Empty
              new == attrs'[h][m.cache_objname].cache
              before == StatsOf(attrs, l.func, l.obj)
              after == StatsOf(attrs', l.func, l.obj)
          IN  /\ (\A k \in DOMAIN old : ~SameArguments(k, key)) =>
                    /\ l.outcome # "hit"
                    /\ l.invoked >= 1
                    /\ after.misses = before.misses + 1
                    /\ after.hits = before.hits
                    /\ (l.outcome = "miss" /\ l.raised = "none") =>
                          /\ after.size = before.size + 1
                          /\ DOMAIN new = DOMAIN old \cup {key}
                          /\ new[key] = l.ret
                          /\ \A k \in DOMAIN old : new[k] = old[k]
              /\ l.raised = "none" =>
                    /\ l.ret.func = l.func
                    /\ l.ret.args = <<l.obj>> \o l.args
                    /\ KwSet(l.ret.kw) = KwSet(l.kw)]_vars

\* three calls that differ in a positional value and in the keyword pairs have
\* each missed and each left an entry of its own
C11_Witness ==
    /\ IsLookup(last)
    /\ last.outcome = "miss"
    /\ last.raised = "none"
    /\ last.kw # <<>>
    /\ StatsOf(attrs, last.func, last.obj) = [hits |-> 0, misses |-> 3, size |-> 3]
    /\ \E k \in DOMAIN attrs[CacheObj(decls[last.func], last.obj)][decls[last.func].cache_objname].cache :
          k[1] = <<last.obj, "a2">>

\* every _Cache there is: <<holder, slot name>>
Caches == {x \in Holders \X SlotNames : HasEntry(x[1], x[2])}

\* C12: in every reachable state the keys of the stored results are exactly the
\* keys of the stored timestamps, and after clear() both are empty.
C12_SameKeys ==
    /\ \A x \in Caches :
          DOMAIN attrs[x[1]][x[2]].cache = DOMAIN attrs[x[1]][x[2]].times
    /\ last.op = "clear" =>
          /\ attrs[last.obj][last.args[1]].cache = Empty
          /\ attrs[last.obj][last.args[1]].times = Empty

\* C13 as claimed: under a duration d, a lookup of a key whose value was stored at
\* t0, made at exactly t0 + d, is a hit that returns the stored value.
C13_BoundaryFresh ==
    [][(IsLookup(last') /\ Keyable(last') /\ ~Falsy(decls[last'.func].duration)) =>
          LET l == last'
              m == decls[l.func]
              h == CacheObj(m, l.obj)
              key == KeyOf(l)
              stored == HasEntry(h, m.cache_objname) /\ key \in DOMAIN attrs[h][m.cache_objname].cache
              c == attrs[h][m.cache_objname]
          IN  (stored /\ now = c.times[key] + m.duration) =>
                    /\ l.outcome = "hit"
                    /\ l.ret = c.cache[key]]_vars

\* C13: under a duration d, a value stored at t0 is stale from t0 + d on: a
\* lookup of its key made at exactly t0 + d runs the computation and counts a
\* miss, and the value is returned as a hit only while now - t0 < d.
C13_BoundaryStale ==
    [][(IsLookup(last') /\ Keyable(last') /\ ~Falsy(decls[last'.func].duration)) =>
          LET l == last'
              m == decls[l.func]
              h == CacheObj(m, l.obj)
              key == KeyOf(l)
              before == StatsOf(attrs, l.func, l.obj)
              after == StatsOf(attrs', l.func, l.obj)
              stored == HasEntry(h, m.cache_objname) /\ key \in DOMAIN attrs[h][m.cache_objname].cache
              c == attrs[h][m.cache_objname]
          IN  /\ (stored /\ now = c.times[key] + m.duration) =>
                    /\ l.outcome # "hit"
                    /\ l.invoked >= 1
                    /\ after.misses = before.misses + 1
                    /\ after.hits = before.hits
              /\ (stored /\ l.outcome = "hit") =>
                    /\ now - c.times[key] < m.duration
                    /\ l.ret = c.cache[key]
              /\ (stored /\ now - c.times[key] < m.duration) => l.outcome = "hit"]_vars

\* a lookup made exactly one duration after the store has just missed and
\* replaced the value
C13_Witness ==
    /\ IsLookup(last)
    /\ last.outcome = "miss"
    /\ last.raised = "none"
    /\ decls[last.func].duration = TTL
    /\ IdOf(last) \in DOMAIN first
    /\ first[IdOf(last)].prior = 1
    /\ first[IdOf(last)].t0 = TTL
    /\ StatsOf(attrs, last.func, last.obj) = [hits |-> 0, misses |-> 2, size |-> 1]

\* hits + misses of the counters s
Counted(s) == s.hits + s.misses

\* C14 as claimed: hits and misses never decrease, and every lookup attempt,
\* whatever becomes of it, adds exactly one to hits + misses of its cache, so
\* that the sum is the number of lookup attempts since the cache was created.
C14_CountsEveryLookup ==
    [][/\ \A x \in Caches : x[2] \in DOMAIN attrs'[x[1]] =>
             /\ attrs'[x[1]][x[2]].hits >= attrs[x[1]][x[2]].hits
             /\ attrs'[x[1]][x[2]].misses >= attrs[x[1]][x[2]].misses
       /\ IsLookup(last') =>
             Counted(StatsOf(attrs', last'.func, last'.obj))
                = Counted(StatsOf(attrs, last'.func, last'.obj)) + 1]_vars

\* C14: hits and misses of a cache never decrease; a lookup whose arguments can
\* be keyed adds exactly one to hits + misses of its cache, also when its
\* computation fails; a lookup whose arguments cannot be hashed, a clear(), a
\* property write and the passing of time leave both counters as they are.  So
\* hits + misses is the number of keyed lookup attempts since the cache was
\* created.
C14_CountsKeyedLookups ==
    [][/\ \A x \in Caches : x[2] \in DOMAIN attrs'[x[1]] =>
             /\ attrs'[x[1]][x[2]].hits >= attrs[x[1]][x[2]].hits
             /\ attrs'[x[1]][x[2]].misses >= attrs[x[1]][x[2]].misses
       /\ (IsLookup(last') /\ Keyable(last')) =>
             /\ Counted(StatsOf(attrs', last'.func, last'.obj))
                   = Counted(StatsOf(attrs, last'.func, last'.obj)) + 1
             /\ last'.outcome = "hit" =>
                   StatsOf(attrs', last'.func, last'.obj).misses
                      = StatsOf(attrs, last'.func, last'.obj).misses
             /\ last'.outcome # "hit" =>
                   StatsOf(attrs', last'.func, last'.obj).hits
                      = StatsOf(attrs, last'.func, last'.obj).hits
       /\ ~(IsLookup(last') /\ Keyable(last')) =>
             \A h \in Holders, name \in SlotNames :
                (name \in DOMAIN attrs'[h]) =>
                   /\ Stats(attrs', h, name).hits = Stats(attrs, h, name).hits
                   /\ Stats(attrs', h, name).misses = Stats(attrs, h, name).misses]_vars

\* a miss, a hit, a clear() and a lookup whose computation failed: three keyed
\* lookups, three counted
C14_Witness ==
    /\ IsLookup(last)
    /\ Keyable(last)
    /\ last.raised = "Error"
    /\ StatsOf(attrs, last.func, last.obj) = [hits |-> 1, misses |-> 2, size |-> 0]

\* C15 as claimed: a call whose positional arguments and set of keyword pairs are
\* those of a stored entry is a hit and leaves the size as it is, whatever the
\* order in which the keyword arguments are supplied.
C15_OrderIrrelevant ==
    [][(IsLookup(last') /\ Keyable(last')) =>
          LET l == last'
              m == decls[l.func]
              h == CacheObj(m, l.obj)
              old == IF HasEntry(h, m.cache_objname) THEN attrs[h][m.cache_objname].cache ELSE Empty
          IN  (\E k \in DOMAIN old : SameArguments(k, KeyOf(l))) =>
                    /\ l.outcome = "hit"
                    /\ StatsOf(attrs', l.func, l.obj).size = StatsOf(attrs, l.func, l.obj).size]_vars

\* C15: the key is built from the positional arguments and the keyword pairs,
\* both in the order the caller supplied them.  A call with the positional
\* arguments and the keyword pairs of a stored entry in the same order is a hit
\* that returns the stored value and leaves the size as it is; a call that
\* supplies the same keyword pairs in another order than every stored entry is
\* a miss, and when its computation returns it adds an entry of its own.
C15_OrderMatters ==
    [][(IsLookup(last') /\ Keyable(last')) =>
          LET l == last'
              m == decls[l.func]
              h == CacheObj(m, l.obj)
              key == KeyOf(l)
              old == IF HasEntry(h, m.cache_objname) THEN attrs[h][m.cache_objname].cache ELSE Empty
              before == StatsOf(attrs, l.func, l.obj)
              after == StatsOf(attrs', l.func, l.obj)
          IN  /\ (\E k \in DOMAIN old : k[1] = key[1] /\ k[2] = key[2]) =>
                    /\ l.outcome = "hit"
                    /\ l.ret = old[key]
                    /\ after.size = before.size
              /\ (/\ \E k \in DOMAIN old : SameArguments(k, key)
                  /\ \A k \in DOMAIN old : SameArguments(k, key) => k[2] # key[2]) =>
                    /\ l.outcome # "hit"
                    /\ after.misses = before.misses + 1
                    /\ (l.outcome = "miss" /\ l.raised = "none") =>
                          after.size = before.size + 1]_vars

\* the same keyword pairs supplied in two orders have left two entries, and the
\* second call missed
C15_Witness ==
    /\ IsLookup(last)
    /\ last.outcome = "miss"
    /\ last.raised = "none"
    /\ last.kw = KwYX
    /\ StatsOf(attrs, last.func, last.obj) = [hits |-> 0, misses |-> 2, size |-> 2]
    /\ \E k \in DOMAIN attrs[CacheObj(decls[last.func], last.obj)][decls[last.func].cache_objname].cache :
          k[2] = KwXY

\* ------------------------------------------ two computations on the same scope
\* the slot names the second computation may be configured with: that of the
\* first or one of its own
SecondNames == {"f_cache", "g_cache"}

\* two memoized methods f and g of one class, both bound to the instance or both
\* to the request
SharedChoices ==
    {("f" :> memoize("f_cache", None, "f")) @@ ("g" :> memoize(n, None, "g")) : n \in SecondNames}
    \cup {("f" :> request_memoize("f_cache", "f")) @@ ("g" :> request_memoize(n, "g")) :
             n \in SecondNames}

InitShared == Start(SharedChoices)

\* one instance within one request; computations return at once
NextShared ==
    \/ \E fn \in {"f", "g"}, inp \in CallInputs : Call(fn, "o1", inp[1], inp[2], {0})
    \/ \E h \in {"o1", REQ}, name \in SlotNames : Clear(h, name)

SpecShared == InitShared /\ [][NextShared]_vars

\* the memoized computations other than fn that keep their cache on the scope fn
\* uses for obj
Neighbours(fn, obj) ==
    {g \in DOMAIN decls \ {fn} : CacheObj(decls[g], obj) = CacheObj(decls[fn], obj)}

\* a lookup of the computation l.func next to the computation g: what it invokes
\* and returns is l.func's, and the counters of g stay as they are
KeepsApart(l, g) ==
    /\ (l.invoked >= 1 /\ l.raised = "none") => l.ret.func = l.func
    /\ l.outcome = "hit" => l.ret.func = l.func
    /\ StatsOf(attrs', g, l.obj).hits = StatsOf(attrs, g, l.obj).hits
    /\ StatsOf(attrs', g, l.obj).misses = StatsOf(attrs, g, l.obj).misses

\* C16 as claimed: for two different memoized computations on the same scope,
\* whatever slot names they are configured with, a lookup of one invokes that
\* computation on a miss, returns only results of that computation, and leaves
\* the other's counters unchanged.
C16_OnePerComputation ==
    [][IsLookup(last') =>
          \A g \in Neighbours(last'.func, last'.obj) : KeepsApart(last', g)]_vars

\* C16: for two different memoized computations on the same scope that are
\* configured with different slot names, a lookup of one invokes that
\* computation on a miss, returns only results of that computation, and leaves
\* the other's counters unchanged.
C16_OnePerSlot ==
    [][IsLookup(last') =>
          \A g \in Neighbours(last'.func, last'.obj) :
             decls[g].cache_objname # decls[last'.func].cache_objname => KeepsApart(last', g)]_vars

\* under different slot names, g has just missed on the arguments f was called
\* with before, and each has its own entry and its own miss
C16_Witness ==
    /\ IsLookup(last)
    /\ last.func = "g"
    /\ last.outcome = "miss"
    /\ last.raised = "none"
    /\ last.ret.func = "g"
    /\ decls["g"].cache_objname # decls["f"].cache_objname
    /\ StatsOf(attrs, "f", last.obj) = [hits |-> 0, misses |-> 1, size |-> 1]
    /\ StatsOf(attrs, "g", last.obj) = [hits |-> 0, misses |-> 1, size |-> 1]

\* ------------------------------------------------- calls made at the same time
\* _Cache._get takes no lock, and between its test of the cache and its store
\* the computation runs: another thread can be scheduled in between.  A call is
\* followed in two steps, the first up to the counting of the miss, the second
\* from the return of the computation.

\* the arguments the threads call the memoizer m with
ThreadArgs(m) == IF IsProperty(m) THEN <<>> ELSE <<"a1">>

\* thread t calls the computation fn on obj: _setup_cache, then _Cache._get up to
\* the hit that returns, or up to the miss that is counted
Enter(t, fn, obj) ==
    LET m == decls[fn]
        h == CacheObj(m, obj)
        at == _setup_cache(attrs, m, obj)
        c == at[h][SlotName(m)]
        key == CallKey(CallArgs(obj, ThreadArgs(m)), <<>>)
        call == [Idle EXCEPT !.func = fn, !.obj = obj, !.args = ThreadArgs(m)]
    IN  /\ threads[t].pc = "idle"
        /\ Lookups(attrs) < MaxLookups
        /\ IF key \in DOMAIN c.cache /\ Fresh(c, key, now)
           THEN LET res == _get_hit(c, key, now) IN
                /\ attrs' = [at EXCEPT ![h][SlotName(m)] = res.c]
                /\ threads' = [threads EXCEPT ![t] =
                                  [call EXCEPT !.pc = "done", !.outcome = "hit", !.ret = res.ret]]
           ELSE /\ attrs' = [at EXCEPT ![h][SlotName(m)].misses = @ + 1]
                /\ threads' = [threads EXCEPT ![t] = [call EXCEPT !.pc = "computing"]]
        /\ UNCHANGED <<decls, underlying, now, request, first, last>>

\* the rest of the miss branch with a second look at the cache: the value found
\* there is returned and the computation's discarded
_get_store_rechecked(c, key, v, t) ==
    IF key \in DOMAIN c.cache /\ Fresh(c, key, t)
    THEN [c |-> c, ret |-> c.cache[key], ran |-> 0]
    ELSE [c |-> _set(c, key, v, t), ret |-> v, ran |-> 1]

\* the rest of the miss branch of _Cache._get, once the computation has returned
\* v: the value is stored and returned
_get_store(c, key, v, t) == [c |-> _set(c, key, v, t), ret |-> v, ran |-> 1]

\* the computation thread t waits for returns, and _Cache._get stores its value
Return(t, ver) ==
    LET th == threads[t]
        m == decls[th.func]
        h == CacheObj(m, th.obj)
        a == CallArgs(th.obj, th.args)
        c == attrs[h][SlotName(m)]
        res == _get_store(c, CallKey(a, th.kw), Result(c.cached_func, a, th.kw, ver), now)
    IN  /\ th.pc = "computing"
        /\ attrs' = [attrs EXCEPT ![h][SlotName(m)] = res.c]
        /\ threads' = [threads EXCEPT ![t] =
                          [th EXCEPT !.pc = "done", !.outcome = "miss", !.ret = res.ret,
                                     !.ran = res.ran]]
        /\ UNCHANGED <<decls, underlying, now, request, first, last>>

\* the call of thread t has returned to its caller
Leave(t) ==
    /\ threads[t].pc = "done"
    /\ threads' = [threads EXCEPT ![t] = Idle]
    /\ UNCHANGED <<decls, attrs, underlying, now, request, first, last>>

NextThreads ==
    \/ \E t \in Threads, fn \in DOMAIN decls : Enter(t, fn, "o1")
    \/ \E t \in Threads, ver \in Versions : Return(t, ver)
    \/ \E t \in Threads : Leave(t)

SpecThreads == Init /\ [][NextThreads]_vars

\* the stored results the call of the thread state th reads and writes
ResultsOf(at, th) == at[CacheObj(decls[th.func], th.obj)][decls[th.func].cache_objname].cache

\* C17: calls made at the same time are not guarded against each other: a call
\* that found its key missing or stale runs the computation and stores and
\* returns its own result, whatever another call has stored under the key in
\* the meantime; so the computation can run more than once for one key inside
\* the TTL window.
C17_Unguarded ==
    [][\A t \in Threads :
          (threads[t].pc = "computing" /\ threads'[t].pc = "done") =>
             LET th == threads'[t]
                 key == KeyOf(th)
             IN  /\ th.outcome = "miss"
                 /\ th.ran = 1
                 /\ th.ret.func = th.func
                 /\ ResultsOf(attrs', th)[key] = th.ret]_vars

\* two calls with the same arguments, made at the same time under a duration,
\* have both missed and both run the computation, and got different values
C17_Witness ==
    /\ \A t \in Threads :
          /\ threads[t].pc = "done"
          /\ threads[t].outcome = "miss"
          /\ threads[t].ran = 1
    /\ threads["t1"].func = threads["t2"].func
    /\ threads["t1"].args = threads["t2"].args
    /\ threads["t1"].ret # threads["t2"].ret
    /\ decls[threads["t1"].func].duration = TTL
    /\ StatsOf(attrs, threads["t1"].func, "o1") = [hits |-> 0, misses |-> 2, size |-> 1]

\* C18: a hit leaves the stored results and timestamps as they are: under a
\* duration d, the timestamp of a key is the clock reading of the store of its
\* value however many hits have followed, and a lookup made later than that
\* reading plus d is a miss.
C18_NoRefresh ==
    [][(IsLookup(last') /\ Keyable(last') /\ ~Falsy(decls[last'.func].duration)) =>
          LET l == last'
              m == decls[l.func]
              h == CacheObj(m, l.obj)
              key == KeyOf(l)
              id == IdOf(l)
              c == attrs[h][m.cache_objname]
              c2 == attrs'[h][m.cache_objname]
          IN  /\ l.outcome = "hit" =>
                    /\ c2.times = c.times
                    /\ c2.cache = c.cache
                    /\ first' = first
              /\ id \in DOMAIN first =>
                    /\ HasEntry(h, m.cache_objname)
                    /\ key \in DOMAIN c.cache
                    /\ c.times[key] = first[id].stored
                    /\ now > first[id].stored + m.duration =>
                          /\ l.outcome # "hit"
                          /\ l.invoked >= 1
                          /\ StatsOf(attrs', l.func, l.obj).misses
                                = StatsOf(attrs, l.func, l.obj).misses + 1]_vars

\* two hits, the second later than the first, and the timestamp is still the
\* earlier clock reading of the store
C18_Witness ==
    /\ IsLookup(last)
    /\ last.outcome = "hit"
    /\ decls[last.func].duration = TTL
    /\ IdOf(last) \in DOMAIN first
    /\ now > first[IdOf(last)].stored
    /\ attrs[last.obj][decls[last.func].cache_objname].times[KeyOf(last)] = first[IdOf(last)].stored
    /\ StatsOf(attrs, last.func, last.obj).hits = 2

\* C19: in every reachable state every key of the stored results of a cache has
\* a timestamp, so the staleness test of a lookup always finds the timestamp of
\* the value it has found.
C19_Timestamped ==
    \A x \in Caches :
       DOMAIN attrs[x[1]][x[2]].cache \subseteq DOMAIN attrs[x[1]][x[2]].times

\* under a duration, a value was stored and hit, the cache was cleared, and the
\* next lookup has stored a value again, with its timestamp
C19_Witness ==
    /\ IsLookup(last)
    /\ last.outcome = "miss"
    /\ last.raised = "none"
    /\ decls[last.func].duration = TTL
    /\ first[IdOf(last)].prior = 0
    /\ StatsOf(attrs, last.func, last.obj) = [hits |-> 1, misses |-> 2, size |-> 1]
    /\ KeyOf(last) \in DOMAIN attrs[last.obj][decls[last.func].cache_objname].times

\* ------------------------------------------------------------ a duration of zero
\* the computation declared with duration=0, as method and as property
ZeroChoices ==
    {memoize("f_cache", 0, "f"),
     memoize_property("f_cache", 0, "f"),
     setter(memoize_property("f_cache", 0, "f"))}

InitZero == Start({("f" :> d) : d \in ZeroChoices})

\* one instance, followed through time and from request to request
SpecZero == InitZero /\ [][Next]_vars

\* what _get answers on the cache c and what it answers on the same cache made
\* without a duration, set side by side with the duration left out
SameAnswer(c, args, kw, t, r1, d, r2) ==
    LET with == _get(c, args, kw, t, r1, d, r2)
        without == _get([c EXCEPT !.duration = None], args, kw, t, r1, d, r2)
    IN  [with EXCEPT !.c.duration = None] = without

\* C20: a duration of zero behaves like no duration: a lookup of a key that has
\* a stored value is a hit that returns it without running the computation,
\* however much time has passed since the store, and every lookup is answered
\* as a cache without a duration in the same state would answer it.
C20_ZeroIsNone ==
    [][(IsLookup(last') /\ decls[last'.func].duration = 0) =>
          LET l == last'
              m == decls[l.func]
              h == CacheObj(m, l.obj)
              key == KeyOf(l)
              c == _setup_cache(attrs, m, l.obj)[h][m.cache_objname]
          IN  /\ (Keyable(l) /\ key \in DOMAIN c.cache) =>
                    /\ l.outcome = "hit"
                    /\ l.invoked = 0
                    /\ l.ret = c.cache[key]
                    /\ StatsOf(attrs', l.func, l.obj).hits = c.hits + 1
                    /\ StatsOf(attrs', l.func, l.obj).misses = c.misses
              /\ \A r1 \in Outcomes, d \in Elapsed, r2 \in Outcomes :
                    SameAnswer(c, <<l.obj>> \o l.args, l.kw, now, r1, d, r2)]_vars

\* under a duration of zero, a value stored at time 0 has just been returned as
\* a hit for the second time, at the latest clock reading there is
C20_Witness ==
    /\ IsLookup(last)
    /\ last.outcome = "hit"
    /\ decls[last.func].duration = 0
    /\ now = MaxTime
    /\ attrs[last.obj][decls[last.func].cache_objname].times[KeyOf(last)] = 0
    /\ StatsOf(attrs, last.func, last.obj) = [hits |-> 2, misses |-> 1, size |-> 1]

====
